---- MODULE Spec2Model ----
(***************************************************************************)
(* Process supervision layer and tunnel connectivity state machine of      *)
(* mc-server-termux: utils/process.py (ProcessManager) and core/playit.py  *)
(* (PlayitManager).                                                        *)
(***************************************************************************)
EXTENDS Integers, Sequences, FiniteSets, TLC

(***************************************************************************)
(* Bounds of the model.                                                    *)
(***************************************************************************)
\* longest identifier-file text found on disk before the first operation
MaxTextLen == 2

\* process ids the operating system hands out to supervised services
Pids == {1, 2, 12}

\* characters an identifier file may hold: digits, white space, anything else
Chars == {"1", "2", " ", "x"}

DigitChars == <<"0", "1", "2", "3", "4", "5", "6", "7", "8", "9">>

Whitespace == {" "}

(***************************************************************************)
(* Text of an identifier file: str(pid) on the way in, int(text.strip())   *)
(* on the way out.                                                         *)
(***************************************************************************)
RECURSIVE Str(_)
Str(n) ==
    IF n < 10 THEN <<DigitChars[n + 1]>>
    ELSE Str(n \div 10) \o <<DigitChars[(n % 10) + 1]>>

RECURSIVE LStrip(_)
LStrip(s) ==
    IF s # <<>> /\ Head(s) \in Whitespace THEN LStrip(Tail(s)) ELSE s

RECURSIVE RStrip(_)
RStrip(s) ==
    IF s # <<>> /\ s[Len(s)] \in Whitespace
    THEN RStrip(SubSeq(s, 1, Len(s) - 1))
    ELSE s

Strip(s) == RStrip(LStrip(s))

DigitValue(c) == CHOOSE d \in 0..9 : DigitChars[d + 1] = c

IsDigit(c) == \E d \in 0..9 : DigitChars[d + 1] = c

RECURSIVE DigitsValue(_)
DigitsValue(s) ==
    IF s = <<>> THEN 0
    ELSE 10 * DigitsValue(SubSeq(s, 1, Len(s) - 1)) + DigitValue(s[Len(s)])

\* int(text): ValueError unless the text is a non-empty run of digits
\* (int() itself ignores surrounding white space)
ParseInt(s) ==
    LET t == Strip(s)
    IN  IF t # <<>> /\ \A i \in 1..Len(t) : IsDigit(t[i])
        THEN [ok |-> TRUE, val |-> DigitsValue(t)]
        ELSE [ok |-> FALSE, val |-> 0]

TextsUpTo(n) == UNION {[1..k -> Chars] : k \in 0..n}

AbsentFile == [exists |-> FALSE, text |-> <<>>]

FileWith(t) == [exists |-> TRUE, text |-> t]

(***************************************************************************)
(* Process Handle Registry: utils/process.py, class ProcessManager.        *)
(***************************************************************************)
VARIABLES
    pid_file,   \* the identifier file of one service: [exists, text]
    alive,      \* process ids that name an existing OS process
    op,         \* the ProcessManager call that returned last
    ret,        \* what it returned: "True", "False", "None", "pid", "-"
    ret_pid,    \* the id get_pid returned (0 when it returned none)
    signals,    \* signals the last stop_process delivered, in order
    removed,    \* the last call found the identifier file and unlinked it
    streak      \* stop_process calls in a row, counted up to 2

regvars == <<pid_file, alive, op, ret, ret_pid, signals, removed, streak>>

(***************************************************************************)
(* Fields of PlayitManager (core/playit.py), its files, its threads.       *)
(***************************************************************************)
VARIABLES
    state,                  \* PlayitState value
    process,                \* self.process: the child's id, 0 for None
    health_thread,          \* self.health_thread: 1 once set, 0 for None
    health_running,         \* self.health_running
    reconnect_attempts,     \* self.reconnect_attempts
    max_reconnect_attempts, \* self.max_reconnect_attempts
    last_reconnect_time,    \* self.last_reconnect_time is set
    wait_time,              \* reconnect()'s wait_time as last computed, 0 before
    playit_pid,             \* run_dir/playit.pid: [exists, text]
    state_file,             \* run_dir/playit_state.json: [exists, state]
    child_alive,            \* tunnel agent processes that exist
    binary_exists,          \* the playit binary is installed
    auto_reconnect,         \* settings.playit_auto_reconnect
    pc,                     \* where each actor stands
    cf,                     \* consecutive_failures of each health loop
    stop_from,              \* who called the stop() an actor is in
    fg_op,                  \* the caller's operation in progress or last returned
    fg_ret,                 \* what it returned: "True", "False", "None", "raise"
    fg_sig,                 \* the caller's stop() signalled a process
    fg_streak,              \* the caller's stop() calls in a row, counted up to 2
    cap_hit,                \* some reconnect() found the attempts over the cap
    rc_late,                \* actors whose reconnect() began after cap_hit
    err_final,              \* state is Error as set at line 299 or line 259
    elapsed,                \* seconds since last_reconnect_time, followed up to MaxElapsed
    slept                   \* seconds the last reconnect() slept at line 309

mgrvars == <<state, process, health_thread,
             health_running, reconnect_attempts, max_reconnect_attempts,
             last_reconnect_time, wait_time>>

filevars == <<playit_pid, state_file>>

envvars == <<child_alive, binary_exists, auto_reconnect>>

actorvars == <<pc, cf, stop_from>>

fgvars == <<fg_op, fg_ret, fg_sig, fg_streak>>

ghostvars == <<cap_hit, rc_late, err_final>>

clockvars == <<elapsed, slept>>

tunvars == <<mgrvars, filevars, envvars, actorvars, fgvars, ghostvars,
             clockvars>>

(***************************************************************************)
(* The accumulated log as start()'s detectors read it, a save of the        *)
(* identifier file in progress, and the configuration store.                *)
(***************************************************************************)
VARIABLES
    log,            \* text of playit.log since start() truncated it
    claim_url,      \* self.claim_url, <<>> for None
    tunnel_address, \* self.tunnel_address, <<>> for None
    det_ret,        \* which detector returned last, and what
    saving,         \* the id a save_pid in progress has yet to write, 0 if none
    config          \* the configuration store: PLAYIT_CLAIM_URL, PLAYIT_TUNNEL_ADDRESS

scanvars == <<log, claim_url, tunnel_address, det_ret>>

auxvars == <<scanvars, saving, config>>

vars == <<regvars, tunvars, auxvars>>

(***************************************************************************)
(* os.kill(pid, 0): the process exists.                                    *)
(***************************************************************************)
ProbeOk(f, procs) ==
    /\ ParseInt(f.text).ok
    /\ ParseInt(f.text).val \in procs

\* fault: the id is read from the file and trusted, os.kill(pid, 0) left out
ProbePidUnchecked(f, procs) ==
    IF f.exists /\ ParseInt(f.text).ok THEN ParseInt(f.text).val ELSE 0

\* ProcessManager.is_running / get_pid probe a file that exists:
\* the id when the probe succeeds, 0 when it fails (the file is unlinked)
ProbePid(f, procs) ==
    IF f.exists /\ ProbeOk(f, procs) THEN ParseInt(f.text).val ELSE 0

\* fault: a failed probe leaves the file where it is
ProbeFileKeeps(f, procs) == f

\* the file after a probe: a failed probe unlinks it
ProbeFile(f, procs) ==
    IF f.exists /\ ProbeOk(f, procs) THEN f ELSE AbsentFile

IsRunning ==
    /\ pid_file' = ProbeFile(pid_file, alive)
    /\ removed' = (pid_file.exists /\ ~pid_file'.exists)
    /\ streak' = 0
    /\ op' = "is_running"
    /\ ret' = IF ProbePid(pid_file, alive) # 0 THEN "True" ELSE "False"
    /\ ret_pid' = 0
    /\ signals' = <<>>
    /\ UNCHANGED <<alive, tunvars, auxvars>>

GetPid ==
    /\ pid_file' = ProbeFile(pid_file, alive)
    /\ removed' = (pid_file.exists /\ ~pid_file'.exists)
    /\ streak' = 0
    /\ op' = "get_pid"
    /\ ret' = IF ProbePid(pid_file, alive) # 0 THEN "pid" ELSE "None"
    /\ ret_pid' = ProbePid(pid_file, alive)
    /\ signals' = <<>>
    /\ UNCHANGED <<alive, tunvars, auxvars>>

SavePid(p) ==
    /\ pid_file' = FileWith(Str(p))
    /\ removed' = FALSE
    /\ streak' = 0
    /\ op' = "save_pid"
    /\ ret' = "-"
    /\ ret_pid' = 0
    /\ signals' = <<>>
    /\ UNCHANGED <<alive, tunvars, auxvars>>

\* save_pid seen by a concurrent reader: Path.write_text opens the file for
\* writing, which creates or truncates it (line 74) ...
SaveOpen(p) ==
    /\ saving = 0
    /\ saving' = p
    /\ pid_file' = FileWith(<<>>)
    /\ UNCHANGED <<alive, op, ret, ret_pid, signals, removed, streak,
                   tunvars, scanvars, config>>

\* ... and the text reaches the file when it is written and closed; if the
\* file was unlinked meanwhile the text goes to the unlinked file
SaveClose ==
    /\ saving # 0
    /\ saving' = 0
    /\ pid_file' = IF pid_file.exists THEN FileWith(Str(saving)) ELSE pid_file
    /\ removed' = FALSE
    /\ streak' = 0
    /\ op' = "save_pid"
    /\ ret' = "-"
    /\ ret_pid' = 0
    /\ signals' = <<>>
    /\ UNCHANGED <<alive, tunvars, scanvars, config>>

\* stop_process's timeout argument, in seconds (0: the poll loop never runs)
Timeouts == {0, 15}

\* what the signalled process does: "gone" exits before SIGTERM is sent,
\* "exits" exits after SIGTERM while the poll loop runs, "late" exits after the
\* deadline but before SIGKILL, "survives" is still there for SIGKILL
Outcomes == {"gone", "exits", "late", "survives"}

\* fault: once the process has been signalled, success is reported with the
\* identifier file left behind
StopResultLeavesFile(f, procs, force, timeout, outcome) ==
    LET pid == ProbePid(f, procs)
    IN  IF pid = 0
        THEN [file |-> ProbeFile(f, procs), procs |-> procs,
              ret |-> "True", signals |-> <<>>]
        ELSE [file |-> f, procs |-> procs \ {pid},
              ret |-> "True", signals |-> <<"TERM">>]

\* fault: a process still there at the deadline is killed whatever force says
StopResultKillsAnyway(f, procs, force, timeout, outcome) ==
    LET pid == ProbePid(f, procs)
    IN  IF pid = 0
        THEN [file |-> ProbeFile(f, procs), procs |-> procs,
              ret |-> "True", signals |-> <<>>]
        ELSE [file |-> AbsentFile, procs |-> procs \ {pid},
              ret |-> "True", signals |-> <<"TERM", "KILL">>]

\* fault: the kill signal follows the termination signal at once, without
\* waiting for the process to exit
StopResultKillsAtOnce(f, procs, force, timeout, outcome) ==
    LET pid == ProbePid(f, procs)
    IN  IF pid = 0
        THEN [file |-> ProbeFile(f, procs), procs |-> procs,
              ret |-> "True", signals |-> <<>>]
        ELSE IF outcome = "gone"
        THEN [file |-> AbsentFile, procs |-> procs \ {pid},
              ret |-> "True", signals |-> <<>>]
        ELSE IF force
        THEN [file |-> AbsentFile, procs |-> procs \ {pid},
              ret |-> "True", signals |-> <<"TERM", "KILL">>]
        ELSE [file |-> f, procs |-> procs,
              ret |-> "False", signals |-> <<"TERM">>]

\* ProcessManager.stop_process: the file, the processes, the return value and
\* the signals delivered
StopResult(f, procs, force, timeout, outcome) ==
    LET pid == ProbePid(f, procs)
    IN  IF pid = 0
        THEN [file |-> ProbeFile(f, procs), procs |-> procs,
              ret |-> "True", signals |-> <<>>]
        ELSE IF outcome = "gone"
        THEN [file |-> AbsentFile, procs |-> procs \ {pid},
              ret |-> "True", signals |-> <<>>]
        ELSE IF outcome = "exits" /\ timeout > 0
        THEN [file |-> AbsentFile, procs |-> procs \ {pid},
              ret |-> "True", signals |-> <<"TERM">>]
        ELSE IF outcome \in {"exits", "late"}
        THEN IF force
             THEN [file |-> AbsentFile, procs |-> procs \ {pid},
                   ret |-> "True", signals |-> <<"TERM">>]
             ELSE [file |-> f, procs |-> procs \ {pid},
                   ret |-> "False", signals |-> <<"TERM">>]
        ELSE IF force
        THEN [file |-> AbsentFile, procs |-> procs \ {pid},
              ret |-> "True", signals |-> <<"TERM", "KILL">>]
        ELSE [file |-> f, procs |-> procs,
              ret |-> "False", signals |-> <<"TERM">>]

StopProcess ==
    \E force \in BOOLEAN, timeout \in Timeouts, outcome \in Outcomes :
        LET r == StopResult(pid_file, alive, force, timeout, outcome)
        IN  /\ pid_file' = r.file
            /\ removed' = (pid_file.exists /\ ~r.file.exists)
            /\ streak' = IF streak < 2 THEN streak + 1 ELSE streak
            /\ alive' = r.procs
            /\ op' = "stop_process"
            /\ ret' = r.ret
            /\ ret_pid' = 0
            /\ signals' = r.signals
            /\ UNCHANGED <<tunvars, auxvars>>

\* the operating system: a process exits, an unrelated process appears
ProcExit ==
    \E p \in alive :
        /\ alive' = alive \ {p}
        /\ UNCHANGED <<pid_file, op, ret, ret_pid, signals, removed, streak, tunvars, auxvars>>

ProcSpawn ==
    \E p \in Pids \ alive :
        /\ alive' = alive \cup {p}
        /\ UNCHANGED <<pid_file, op, ret, ret_pid, signals, removed, streak, tunvars, auxvars>>

\* the identifier files of run_dir that cleanup_stale_pids visits
DirFiles == {"minecraft", "playit"}

\* fault: a file is kept as soon as its text is a number, the probe left out
CleanedFileParsed(f, procs) ==
    IF f.exists /\ ParseInt(f.text).ok THEN f ELSE AbsentFile

\* one file of the directory after cleanup_stale_pids visited it (lines
\* 137-138): is_running probes it, and a file is_running returned False for is
\* unlinked (by is_running itself, line 38, and again at line 138)
CleanedFile(f, procs) ==
    IF ProbePid(f, procs) # 0 THEN ProbeFile(f, procs) ELSE AbsentFile

\* ProcessManager.cleanup_stale_pids(run_dir) as main.py calls it at start-up
\* (line 48): glob visits the files in some order, and processes may exit
\* between the probe of the first file and the probe of the second
CleanupStalePids ==
    \E first \in DirFiles, gone \in SUBSET alive :
        LET at(n) == IF n = first THEN alive ELSE alive \ gone
        IN  /\ pid_file' = CleanedFile(pid_file, at("minecraft"))
            /\ playit_pid' = CleanedFile(playit_pid, at("playit"))
            /\ alive' = alive \ gone
            /\ removed' = (  (pid_file.exists /\ ~pid_file'.exists)
                          \/ (playit_pid.exists /\ ~playit_pid'.exists))
            /\ streak' = 0
            /\ op' = "cleanup_stale_pids"
            /\ ret' = "None"
            /\ ret_pid' = 0
            /\ signals' = <<>>
            /\ UNCHANGED <<mgrvars, state_file, envvars, actorvars, fgvars,
                           ghostvars, clockvars, auxvars>>

\* ProcessManager.start_process (lines 140-186): the process is launched and
\* its id saved, whatever the identifier file holds
StartProcess ==
    \E p \in Pids \ alive :
        /\ alive' = alive \cup {p}
        /\ pid_file' = FileWith(Str(p))
        /\ removed' = FALSE
        /\ streak' = 0
        /\ op' = "start_process"
        /\ ret' = "pid"
        /\ ret_pid' = p
        /\ signals' = <<>>
        /\ UNCHANGED <<tunvars, auxvars>>

\* MinecraftServer.start (lines 28-62) and FilebrowserManager.start: return
\* at once when is_running says so, return False when something the service
\* needs is missing, launch through start_process otherwise
ServiceStart ==
    \E ready \in BOOLEAN :
        LET up == ProbePid(pid_file, alive) # 0
            launch == ~up /\ ready /\ Pids \ alive # {}
            p == CHOOSE q \in Pids : launch => q \notin alive
        IN  /\ ready => up \/ launch
            /\ alive' = IF launch THEN alive \cup {p} ELSE alive
            /\ pid_file' = IF launch THEN FileWith(Str(p))
                           ELSE ProbeFile(pid_file, alive)
            /\ removed' = (~launch /\ pid_file.exists /\ ~pid_file'.exists)
            /\ streak' = 0
            /\ op' = "start"
            /\ ret' = IF up \/ launch THEN "True" ELSE "False"
            /\ ret_pid' = IF launch THEN p ELSE 0
            /\ signals' = <<>>
            /\ UNCHANGED <<tunvars, auxvars>>

InitReg ==
    /\ pid_file \in {AbsentFile} \cup {FileWith(t) : t \in TextsUpTo(MaxTextLen)}
    /\ alive \in SUBSET Pids
    /\ op = "-"
    /\ ret = "-"
    /\ ret_pid = 0
    /\ signals = <<>>
    /\ removed = FALSE
    /\ streak = 0

NextReg ==
    \/ IsRunning
    \/ GetPid
    \/ \E p \in Pids : SavePid(p)
    \/ StopProcess
    \/ ProcExit
    \/ ProcSpawn

(***************************************************************************)
(* Tunnel State Machine and Health/Reconnect Loop: core/playit.py, class    *)
(* PlayitManager.  One foreground caller (actor 0) and the health-loop      *)
(* threads (actors 1..MaxThreads) interleave at the blocking calls of the   *)
(* code: sleeps, joins, waits and the launch of the child.                  *)
(***************************************************************************)
\* health-loop threads that may be alive together
MaxThreads == 2

\* child processes of this manager that may be alive together
MaxChildren == 2

\* the cap the manager under test is configured with
SmallCap == 1

\* how far past the cap the attempt counter is followed
MaxOver == 1

\* _health_check_loop, line 236
max_failures == 3

\* PlayitManager.__init__, line 48
DefaultCap == 10

\* settings.playit_health_check_interval, in seconds (the default)
HealthInterval == 30

\* _verify_tunnel_health, line 280: timedelta(minutes=5), in seconds
StaleAfter == 300

Threads == 1..MaxThreads

Actors == 0..MaxThreads

ChildPids == 1..MaxChildren

\* ids of tunnel agents of earlier runs, which playit.pid may still name
Orphans == {12}

\* json.dumps of a str, between the quotes: quote and backslash are escaped
RECURSIVE JsonEscape(_)
JsonEscape(s) ==
    IF s = <<>> THEN <<>>
    ELSE (IF Head(s) \in {"\"", "\\"} THEN <<"\\", Head(s)>> ELSE <<Head(s)>>)
         \o JsonEscape(Tail(s))

\* json.loads of what stands between the quotes
RECURSIVE JsonUnescape(_)
JsonUnescape(s) ==
    IF s = <<>> THEN <<>>
    ELSE IF Head(s) = "\\" /\ Len(s) > 1
    THEN <<s[2]>> \o JsonUnescape(Tail(Tail(s)))
    ELSE <<Head(s)>> \o JsonUnescape(Tail(s))

JsonNull == <<"n", "u", "l", "l">>

\* json.dumps of an Optional[str] field (<<>> stands for None; a detected
\* URL or address is never the empty string)
JsonDump(v) ==
    IF v = <<>> THEN JsonNull ELSE <<"\"">> \o JsonEscape(v) \o <<"\"">>

\* json.loads of such a field
JsonLoad(t) ==
    IF t = JsonNull THEN <<>> ELSE JsonUnescape(SubSeq(t, 2, Len(t) - 1))

\* what stands between the quotes of a JSON string: no bare quote, no
\* backslash left without the character it escapes
RECURSIVE WellEscaped(_)
WellEscaped(s) ==
    IF s = <<>> THEN TRUE
    ELSE IF Head(s) = "\\" THEN Len(s) > 1 /\ WellEscaped(Tail(Tail(s)))
    ELSE Head(s) # "\"" /\ WellEscaped(Tail(s))

\* json.loads accepts the text of such a field: null or a string
JsonValid(t) ==
    \/ t = JsonNull
    \/ /\ Len(t) >= 2
       /\ t[1] = "\""
       /\ t[Len(t)] = "\""
       /\ WellEscaped(SubSeq(t, 2, Len(t) - 1))

NoStateFile ==
    [exists |-> FALSE, state |-> "", claim_url |-> <<>>, tunnel_address |-> <<>>]

\* fault: the claim URL is left out of the record
SavedRecordNoUrl(st, url, addr) ==
    [exists |-> TRUE, state |-> st,
     claim_url |-> JsonNull, tunnel_address |-> JsonDump(addr)]

\* _save_state, lines 404-411: the record written ('last_update' is never
\* read back)
SavedRecord(st, url, addr) ==
    [exists |-> TRUE, state |-> st,
     claim_url |-> JsonDump(url), tunnel_address |-> JsonDump(addr)]

\* PlayitManager._save_state
SavedState(st) == SavedRecord(st, claim_url, tunnel_address)

\* fault: the fields are taken from the file without json.loads having
\* accepted it
LoadedStateUnchecked(f) ==
    IF f.exists
    THEN [claim_url |-> JsonLoad(f.claim_url),
          tunnel_address |-> JsonLoad(f.tunnel_address)]
    ELSE [claim_url |-> <<>>, tunnel_address |-> <<>>]

\* _load_state, lines 415-423, on a manager just constructed (both fields
\* None, lines 39-40): json.loads parses the whole file before either field
\* is assigned, and whatever it raises is caught at line 436
LoadedState(f) ==
    IF f.exists /\ JsonValid(f.claim_url) /\ JsonValid(f.tunnel_address)
    THEN [claim_url |-> JsonLoad(f.claim_url),
          tunnel_address |-> JsonLoad(f.tunnel_address)]
    ELSE [claim_url |-> <<>>, tunnel_address |-> <<>>]

\* settings.playit_claim_url and playit_tunnel_address as shipped: ""
NoConfig == [claim_url |-> <<>>, tunnel_address |-> <<>>]

\* fault: only the handle is asked, the identifier file is never read
TunnelRunningHandleOnly(proc, procs, f) == proc # 0 /\ proc \in procs

\* PlayitManager.is_running: the handle has not exited, or the identifier
\* file names an existing process
TunnelRunning(proc, procs, f) ==
    \/ proc # 0 /\ proc \in procs
    \/ f.exists /\ ProbeOk(f, procs)

\* the identifier file after is_running: read only when the handle is gone,
\* unlinked when the probe fails
TunnelProbeFile(proc, procs, f) ==
    IF proc # 0 /\ proc \in procs THEN f ELSE ProbeFile(f, procs)

\* PlayitManager._verify_tunnel_health
VerifyTunnelHealth(proc, procs, fresh) ==
    /\ proc # 0
    /\ proc \in procs
    /\ fresh

\* fault: the exponential delay without its ceiling
BackoffUncapped(n) == 2 ^ n

\* reconnect(), line 303: min(2 ** attempts, 60)
BackoffDelay(n) == IF 2 ^ n < 60 THEN 2 ^ n ELSE 60

\* fault: the cap compared one attempt late
OverCapLate(n, cap) == n > cap + 1

\* reconnect(), line 297: the attempt just counted is over the cap
OverCap(n, cap) == n > cap

\* fault: a failing check counts double
CountedTwice(healthy, n) == IF healthy THEN 0 ELSE n + 2

\* _health_check_loop, lines 241-248: consecutive_failures after a check
Counted(healthy, n) == IF healthy THEN 0 ELSE n + 1

\* fault: the loop acts one failing check late
TrippedLate(n) == n > max_failures

\* fault: the loop acts on the first failing check
TrippedAtOnce(n) == n >= 1

\* _health_check_loop, line 252: enough consecutive failures to act
Tripped(n) == n >= max_failures

\* how long the time since the last reconnect timestamp is followed, in
\* seconds (longer than the longest delay)
MaxElapsed == 61

\* fault: the whole delay is slept whatever time has passed
SleepWhole(set, since, wait) == wait

\* reconnect(), lines 306-309: the sleep that makes up the difference
SleepFor(set, since, wait) ==
    IF set /\ since < wait THEN wait - since ELSE 0

\* fault: the wait loop does not look at the child's exit status
ExitedUnnoticed(proc, procs) == FALSE

\* start(), line 96: self.process.poll() is not None
Exited(proc, procs) == proc # 0 /\ proc \notin procs

\* class PlayitState, lines 16-24
PlayitState ==
    {"stopped", "starting", "waiting_claim", "connecting", "connected",
     "error", "reconnecting"}

\* fault: a detected connection is recorded as Connecting
WaitLoopStateConnecting(bad, claimed, up, cur) ==
    IF bad THEN "error"
    ELSE IF claimed THEN "waiting_claim"
    ELSE IF up THEN "connecting" ELSE cur

\* start(), lines 94-124: the state after one turn of the wait loop: Error
\* when the child exited, the deadline passed or an exception was caught,
\* WaitingClaim on a claim URL, Connected on a connection, else unchanged
WaitLoopState(bad, claimed, up, cur) ==
    IF bad THEN "error"
    ELSE IF claimed THEN "waiting_claim"
    ELSE IF up THEN "connected" ELSE cur

InRc(a) == a \in Threads \/ fg_op = "reconnect"

\* fault: a successful reconnect leaves the attempts counted
AttemptsKept(ok, n) == n

\* reconnect(), lines 320-326: the attempt counter once start() has returned
\* inside reconnect(), ok telling whether it returned True
AttemptsAfter(ok, n) == IF ok THEN 0 ELSE n

\* where an actor stands once its outermost call returns: the caller is idle,
\* a health loop tests its flag and sleeps or ends
AfterReturn(a, hr) ==
    IF a = 0 THEN "idle" ELSE IF hr THEN "h_sleep" ELSE "dead"

\* Thread 1 is always the loop self.health_thread refers to.  A loop that is
\* still alive when _start_health_monitor creates the next one (lines 224-229)
\* is renumbered to the lowest free number above 1.
FreeThread ==
    CHOOSE t \in Threads :
        pc[t] = "dead" /\ \A u \in Threads : pc[u] = "dead" => t <= u

Displaced(x) == IF x = 1 /\ pc[1] # "dead" THEN FreeThread ELSE x

\* a per-actor record f after a new health loop with entry v has started
Spawned(started, f, v) ==
    IF ~started THEN f
    ELSE [x \in DOMAIN f |->
            IF x = 1 THEN v
            ELSE IF x = Displaced(1) THEN f[1]
            ELSE f[x]]

FreeChild ==
    CHOOSE c \in ChildPids :
        c \notin child_alive /\ \A d \in ChildPids : d \notin child_alive => c <= d

InitTunnel ==
    /\ state = "stopped"
    /\ process = 0
    /\ health_thread = 0
    /\ health_running = FALSE
    /\ reconnect_attempts = 0
    /\ max_reconnect_attempts = SmallCap
    /\ last_reconnect_time = FALSE
    /\ wait_time = 0
    /\ playit_pid \in {AbsentFile, FileWith(<<"x">>)}
                      \cup {FileWith(Str(o)) : o \in Orphans}
    /\ state_file = NoStateFile
    /\ child_alive = {}
    /\ binary_exists \in BOOLEAN
    /\ auto_reconnect \in BOOLEAN
    /\ pc = [a \in Actors |-> IF a = 0 THEN "idle" ELSE "dead"]
    /\ cf = [t \in Threads |-> 0]
    /\ stop_from = [a \in Actors |-> "-"]
    /\ fg_op = "-"
    /\ fg_ret = "-"
    /\ fg_sig = FALSE
    /\ fg_streak = 0
    /\ cap_hit = FALSE
    /\ rc_late = {}
    /\ err_final = FALSE
    /\ elapsed = 0
    /\ slept = 0


(***************************************************************************)
(* start(), lines 64-71, called by the caller: already running, binary      *)
(* missing (FileNotFoundError leaves start), or on to the launch.           *)
(***************************************************************************)
FgStart ==
    /\ pc[0] = "idle"
    /\ LET run == TunnelRunning(process, child_alive, playit_pid)
           launch == ~run /\ binary_exists
       IN  /\ playit_pid' = TunnelProbeFile(process, child_alive, playit_pid)
           /\ state' = IF launch THEN "starting" ELSE state
           /\ pc' = [pc EXCEPT ![0] = IF launch THEN "start_launch" ELSE "idle"]
           /\ fg_ret' = IF launch THEN "-" ELSE IF run THEN "True" ELSE "raise"
    /\ fg_op' = "start"
    /\ fg_sig' = FALSE
    /\ fg_streak' = 0
    /\ err_final' = (err_final /\ state' = "error")
    /\ UNCHANGED <<regvars, auxvars, process, health_thread,
                 health_running, reconnect_attempts,
                 max_reconnect_attempts, last_reconnect_time,
                 wait_time, state_file, child_alive,
                 binary_exists, auto_reconnect, cf, stop_from,
                 cap_hit, rc_late, elapsed, slept>>

(***************************************************************************)
(* start(), lines 73-92: the log is truncated, the child launched, its id   *)
(* written; a launch that fails goes to the except branch and its stop().   *)
(***************************************************************************)
StartLaunch(a) ==
    /\ pc[a] = "start_launch"
    /\ \E ok \in BOOLEAN :
        /\ ok => ChildPids \ child_alive # {}
        /\ process' = IF ok THEN FreeChild ELSE process
        /\ child_alive' = IF ok THEN child_alive \cup {FreeChild} ELSE child_alive
        /\ playit_pid' = IF ok THEN FileWith(Str(FreeChild)) ELSE playit_pid
        /\ state' = IF ok THEN "waiting_claim" ELSE "error"
        /\ health_running' = IF ok THEN health_running ELSE FALSE
        /\ pc' = [pc EXCEPT ![a] = IF ok THEN "start_wait" ELSE "stop_join"]
        /\ stop_from' = IF ok THEN stop_from ELSE [stop_from EXCEPT ![a] = "start"]
    /\ log' = <<>>
    /\ err_final' = (err_final /\ state' = "error")
    /\ UNCHANGED <<regvars, claim_url, tunnel_address, det_ret, saving,
                 config, health_thread, reconnect_attempts,
                 max_reconnect_attempts, last_reconnect_time,
                 wait_time, state_file, binary_exists,
                 auto_reconnect, cf, fg_op, fg_ret, fg_sig,
                 fg_streak, cap_hit, rc_late, elapsed, slept>>

\* what the wait loop finds in the log on one turn: nothing yet, a claim URL
\* (_detect_claim_url), a connection indicator (_detect_tunnel_address)
LineKinds == {"none", "claim", "tunnel"}

(***************************************************************************)
(* start(), lines 94-127: one turn of the wait loop, or its deadline.       *)
(***************************************************************************)
StartTick(a) ==
    /\ pc[a] = "start_wait"
    /\ \E line \in LineKinds, deadline \in BOOLEAN :
        LET lost == process = 0
            exited == Exited(process, child_alive)
            scan == ~deadline /\ ~lost /\ ~exited
            claimed == scan /\ line = "claim"
            up == scan /\ line = "tunnel"
            monitor == up /\ ~health_running
            found == claimed \/ up
            failed == ~deadline /\ ~lost /\ exited
            tostop == deadline \/ lost
            hr == IF tostop THEN FALSE ELSE IF monitor THEN TRUE ELSE health_running
            st == WaitLoopState(tostop \/ failed, claimed, up, state)
        IN  /\ ~scan => line = "none"
            /\ monitor => \E t \in Threads : pc[t] = "dead"
            /\ state' = st
            /\ state_file' = IF found THEN SavedState(st) ELSE state_file
            /\ health_running' = hr
            /\ health_thread' = IF monitor THEN 1 ELSE health_thread
            /\ reconnect_attempts' = AttemptsAfter(found /\ InRc(a), reconnect_attempts)
            /\ stop_from' = Spawned(monitor,
                    IF tostop THEN [stop_from EXCEPT ![a] = "start"] ELSE stop_from,
                    "-")
            /\ pc' = Spawned(monitor,
                    [pc EXCEPT ![a] = IF tostop THEN "stop_join"
                                      ELSE IF found \/ failed THEN AfterReturn(a, hr)
                                      ELSE "start_wait"],
                    "h_sleep")
            /\ cf' = Spawned(monitor,
                    IF a # 0 /\ (found \/ failed) THEN [cf EXCEPT ![a] = 0] ELSE cf,
                    0)
            /\ rc_late' = LET left == IF found \/ failed THEN rc_late \ {a}
                                      ELSE rc_late
                          IN  IF monitor THEN {Displaced(x) : x \in left} ELSE left
            /\ fg_ret' = IF a # 0 THEN fg_ret
                         ELSE IF found THEN "True"
                         ELSE IF failed THEN "False" ELSE fg_ret
    /\ err_final' = (err_final /\ state' = "error")
    /\ UNCHANGED <<regvars, auxvars, process, max_reconnect_attempts,
                 last_reconnect_time, wait_time, playit_pid,
                 child_alive, binary_exists, auto_reconnect,
                 fg_op, fg_sig, fg_streak, cap_hit, elapsed,
                 slept>>

(***************************************************************************)
(* stop(), lines 330-333: the caller's stop() up to the join.               *)
(***************************************************************************)
FgStop ==
    /\ pc[0] = "idle"
    /\ fg_op' = "stop"
    /\ fg_ret' = "-"
    /\ fg_sig' = FALSE
    /\ fg_streak' = IF fg_streak < 2 THEN fg_streak + 1 ELSE fg_streak
    /\ health_running' = FALSE
    /\ pc' = [pc EXCEPT ![0] = "stop_join"]
    /\ stop_from' = [stop_from EXCEPT ![0] = "call"]
    /\ UNCHANGED <<regvars, auxvars, state, process, health_thread,
                 reconnect_attempts, max_reconnect_attempts,
                 last_reconnect_time, wait_time, playit_pid,
                 state_file, child_alive, binary_exists,
                 auto_reconnect, cf, cap_hit, rc_late, err_final,
                 elapsed, slept>>

(***************************************************************************)
(* stop(), lines 334-356, from the join of the health thread on.  The join  *)
(* is bounded (5 s), so stop() goes on with that thread still alive; a      *)
(* health loop that joins itself gets RuntimeError, which ends it (inside   *)
(* start() the except branch calls stop() again, which raises again).       *)
(* Otherwise the child the handle names is terminated, the handle cleared,  *)
(* the identifier file removed, Stopped set and saved.  stop() called by    *)
(* reconnect() is followed by its settle sleep and the entry of start()     *)
(* (lines 317-320, 64-71), where nothing runs any more.                     *)
(***************************************************************************)
StopJoin(a) ==
    /\ pc[a] = "stop_join"
    /\ LET from == stop_from[a]
           own == health_thread # 0 /\ health_thread = a
           hit == process # 0 /\ process \in child_alive
           launch == ~own /\ from = "reconnect" /\ binary_exists
           raised == own \/ (from = "reconnect" /\ ~binary_exists)
       IN  /\ child_alive' = IF own THEN child_alive ELSE child_alive \ {process}
           /\ process' = IF own THEN process ELSE 0
           /\ playit_pid' = IF own THEN playit_pid ELSE AbsentFile
           /\ state' = IF own THEN (IF from = "reconnect" THEN state ELSE "error")
                        ELSE IF launch THEN "starting" ELSE "stopped"
           /\ state_file' = IF own THEN state_file
                             ELSE SavedState("stopped")
           /\ stop_from' = [stop_from EXCEPT ![a] = "-"]
           /\ pc' = [pc EXCEPT ![a] =
                       IF launch THEN "start_launch"
                       ELSE IF raised /\ a # 0 THEN "dead"
                       ELSE AfterReturn(a, health_running)]
           /\ cf' = IF a # 0 THEN [cf EXCEPT ![a] = 0] ELSE cf
           /\ rc_late' = IF launch THEN rc_late ELSE rc_late \ {a}
           /\ fg_ret' = IF a # 0 \/ launch THEN fg_ret
                        ELSE IF raised THEN "raise"
                        ELSE IF from = "start" THEN "False" ELSE "None"
           /\ fg_sig' = IF a = 0 /\ from = "call" THEN hit ELSE fg_sig
    /\ err_final' = (err_final /\ state' = "error")
    /\ UNCHANGED <<regvars, auxvars, health_thread, health_running,
                 reconnect_attempts, max_reconnect_attempts,
                 last_reconnect_time, wait_time, binary_exists,
                 auto_reconnect, fg_op, fg_streak, cap_hit,
                 elapsed, slept>>

(***************************************************************************)
(* reconnect(), lines 295-316, called by the caller: count the attempt,     *)
(* give up over the cap, else wait out the backoff, set Reconnecting and    *)
(* enter stop() up to its join.                                             *)
(***************************************************************************)
FgReconnect ==
    /\ pc[0] = "idle"
    /\ reconnect_attempts < max_reconnect_attempts + MaxOver
    /\ LET n == reconnect_attempts + 1
           over == OverCap(n, max_reconnect_attempts)
       IN  /\ reconnect_attempts' = n
           /\ state' = IF over THEN "error" ELSE "reconnecting"
           /\ wait_time' = IF over THEN wait_time ELSE BackoffDelay(n)
           /\ last_reconnect_time' = (last_reconnect_time \/ ~over)
           /\ health_running' = IF over THEN health_running ELSE FALSE
           /\ cap_hit' = (cap_hit \/ over)
           /\ rc_late' = IF cap_hit /\ ~over THEN rc_late \cup {0} ELSE rc_late
           /\ pc' = [pc EXCEPT ![0] = IF over THEN "idle" ELSE "stop_join"]
           /\ stop_from' = IF over THEN stop_from
                           ELSE [stop_from EXCEPT ![0] = "reconnect"]
           /\ fg_ret' = IF over THEN "False" ELSE "-"
           /\ slept' = IF over THEN slept
                       ELSE SleepFor(last_reconnect_time, elapsed, BackoffDelay(n))
           /\ elapsed' = IF over THEN elapsed ELSE 0
    /\ fg_op' = "reconnect"
    /\ fg_sig' = FALSE
    /\ fg_streak' = 0
    /\ err_final' = (state' = "error")
    /\ UNCHANGED <<regvars, auxvars, process, health_thread,
                 max_reconnect_attempts, playit_pid, state_file,
                 child_alive, binary_exists, auto_reconnect, cf>>

(***************************************************************************)
(* _health_check_loop, lines 238-262: the loop wakes from its interval      *)
(* sleep and checks, without looking at its flag again.  At the threshold   *)
(* it calls reconnect() (lines 295-316, as above) or, with auto-reconnect   *)
(* off, sets Error and ends; otherwise it tests its flag and sleeps again.  *)
(***************************************************************************)
HealthCheckOn(t, fresh) ==
    /\ pc[t] = "h_sleep"
    /\ \* a failing check wrote its diagnostic to the log (lines 242, 245)
       \* one interval before this check
       /\ (cf[t] > 0 /\ HealthInterval < StaleAfter) => fresh
       /\ LET run == TunnelRunning(process, child_alive, playit_pid)
              healthy == run /\ VerifyTunnelHealth(process, child_alive, fresh)
              k == Counted(healthy, cf[t])
              trip == ~healthy /\ Tripped(k)
              off == trip /\ ~auto_reconnect
              call == trip /\ auto_reconnect
              n == reconnect_attempts + 1
              over == call /\ OverCap(n, max_reconnect_attempts)
              go == call /\ ~over
          IN  /\ call => reconnect_attempts < max_reconnect_attempts + MaxOver
              /\ playit_pid' = TunnelProbeFile(process, child_alive, playit_pid)
              /\ cf' = [cf EXCEPT ![t] =
                          IF over \/ off \/ (~go /\ ~health_running) THEN 0 ELSE k]
              /\ reconnect_attempts' = IF call THEN n ELSE reconnect_attempts
              /\ state' = IF off \/ over THEN "error"
                           ELSE IF go THEN "reconnecting" ELSE state
              /\ wait_time' = IF go THEN BackoffDelay(n) ELSE wait_time
              /\ last_reconnect_time' = (last_reconnect_time \/ go)
              /\ health_running' = IF off \/ go THEN FALSE ELSE health_running
              /\ cap_hit' = (cap_hit \/ over)
              /\ err_final' = (off \/ over \/ (err_final /\ state' = "error"))
              /\ rc_late' = IF go /\ cap_hit THEN rc_late \cup {t} ELSE rc_late
              /\ stop_from' = IF go THEN [stop_from EXCEPT ![t] = "reconnect"]
                              ELSE stop_from
              /\ pc' = [pc EXCEPT ![t] =
                          IF off THEN "dead"
                          ELSE IF go THEN "stop_join"
                          ELSE AfterReturn(t, health_running)]
              /\ slept' = IF go
                          THEN SleepFor(last_reconnect_time, elapsed, BackoffDelay(n))
                          ELSE slept
              /\ elapsed' = IF go THEN 0 ELSE elapsed
    /\ UNCHANGED <<regvars, auxvars, process, health_thread,
                 max_reconnect_attempts, state_file, child_alive,
                 binary_exists, auto_reconnect, fg_op, fg_ret,
                 fg_sig, fg_streak>>

\* one check of the loop, the log modified within the last five minutes or
\* not
HealthCheck(t) == \E fresh \in BOOLEAN : HealthCheckOn(t, fresh)

(***************************************************************************)
(* is_running(), lines 365-381, called by the caller.                       *)
(***************************************************************************)
FgIsRunning ==
    /\ pc[0] = "idle"
    /\ fg_op' = "is_running"
    /\ fg_ret' = IF TunnelRunning(process, child_alive, playit_pid)
                 THEN "True" ELSE "False"
    /\ playit_pid' = TunnelProbeFile(process, child_alive, playit_pid)
    /\ fg_sig' = FALSE
    /\ fg_streak' = 0
    /\ UNCHANGED <<regvars, auxvars, state, process, health_thread,
                 health_running, reconnect_attempts,
                 max_reconnect_attempts, last_reconnect_time,
                 wait_time, state_file, child_alive,
                 binary_exists, auto_reconnect, pc, cf,
                 stop_from, cap_hit, rc_late, err_final, elapsed,
                 slept>>

(***************************************************************************)
(* The supervisor ends and is run again: __init__, lines 37-52, and         *)
(* _load_state, lines 415-434, build a new manager over the files the old   *)
(* one left.  The threads of the old one are gone; its child is not         *)
(* signalled and may run on.                                                *)
(***************************************************************************)
Restart ==
    /\ pc[0] = "idle"
    /\ LET url == LoadedState(state_file).claim_url
           addr == LoadedState(state_file).tunnel_address
       IN  /\ claim_url' = url
           /\ tunnel_address' = addr
           /\ config' = [claim_url |-> IF url # <<>> THEN url
                                       ELSE config.claim_url,
                         tunnel_address |-> IF addr # <<>> THEN addr
                                            ELSE config.tunnel_address]
    /\ state' = "stopped"
    /\ process' = 0
    /\ health_thread' = 0
    /\ health_running' = FALSE
    /\ reconnect_attempts' = 0
    /\ max_reconnect_attempts' = DefaultCap
    /\ last_reconnect_time' = FALSE
    /\ wait_time' = 0
    /\ elapsed' = 0
    /\ slept' = 0
    /\ pc' = [a \in Actors |-> IF a = 0 THEN "idle" ELSE "dead"]
    /\ cf' = [t \in Threads |-> 0]
    /\ stop_from' = [a \in Actors |-> "-"]
    /\ fg_op' = "__init__"
    /\ fg_ret' = "-"
    /\ fg_sig' = FALSE
    /\ fg_streak' = 0
    /\ cap_hit' = FALSE
    /\ rc_late' = {}
    /\ err_final' = FALSE
    /\ UNCHANGED <<regvars, log, det_ret, saving, playit_pid, state_file,
                   child_alive, binary_exists, auto_reconnect>>

\* time passes since the timestamp of line 313
Pass ==
    /\ last_reconnect_time
    /\ elapsed < MaxElapsed
    /\ elapsed' = elapsed + 1
    /\ UNCHANGED <<regvars, auxvars, state, process, health_thread,
                 health_running, reconnect_attempts,
                 max_reconnect_attempts, last_reconnect_time,
                 wait_time, playit_pid, state_file, child_alive,
                 binary_exists, auto_reconnect, pc, cf,
                 stop_from, fg_op, fg_ret, fg_sig, fg_streak,
                 cap_hit, rc_late, err_final, slept>>

\* the tunnel agent exits on its own
ChildExit ==
    /\ \E c \in child_alive : child_alive' = child_alive \ {c}
    /\ UNCHANGED <<regvars, auxvars, state, process, health_thread,
                 health_running, reconnect_attempts,
                 max_reconnect_attempts, last_reconnect_time,
                 wait_time, playit_pid, state_file,
                 binary_exists, auto_reconnect, pc, cf,
                 stop_from, fg_op, fg_ret, fg_sig, fg_streak,
                 cap_hit, rc_late, err_final, elapsed, slept>>

NextTunnel ==
    \/ FgStart
    \/ FgStop
    \/ FgReconnect
    \/ \E a \in Actors : StartLaunch(a)
    \/ \E a \in Actors : StartTick(a)
    \/ \E a \in Actors : StopJoin(a)
    \/ \E t \in Threads : HealthCheck(t)
    \/ ChildExit

(***************************************************************************)
(* Detection in the accumulated log: _detect_claim_url and                  *)
(* _detect_tunnel_address, as regular-expression searches over the text.    *)
(* The text is written over a small alphabet, and the literals of the       *)
(* patterns are shortened to two characters each.  (StartTick above takes   *)
(* the outcome of one scan as its input; here the scan itself is computed.) *)
(***************************************************************************)
\* longest log text followed
MaxLogLen == 5

\* longest line read from the child's pipe in one scan
MaxLineLen == 3

\* letters, a slash, white space; "T" is the upper case of "t"
LogChars == {"h", "t", "T", "/", " "}

\* [a-zA-Z0-9]
Alnum == {"h", "t", "T"}

\* [^\s]
NonBlank == LogChars \ {" "}

\* stands for the literal https://playit.gg/claim/ of line 144
ClaimPrefix == <<"h", "/">>

\* stands for the literal tcp:// of lines 200 and 207
TcpPrefix == <<"t", "/">>

\* success_indicators, lines 197-202: tcp:// and (shortened) the phrases
Indicators == {TcpPrefix, <<"h", "t">>}

LogTexts(n) == UNION {[1..k -> LogChars] : k \in 0..n}

\* str.lower()
Lower(s) == [i \in 1..Len(s) |-> IF s[i] = "T" THEN "t" ELSE s[i]]

OccursAt(s, i, w) ==
    /\ i + Len(w) - 1 <= Len(s)
    /\ SubSeq(s, i, i + Len(w) - 1) = w

\* w in s
Contains(s, w) == \E i \in 1..Len(s) : OccursAt(s, i, w)

\* the end of the longest run of characters of a class that starts at j
RECURSIVE RunEnd(_, _, _)
RunEnd(s, j, class) ==
    IF j < Len(s) /\ s[j + 1] \in class THEN RunEnd(s, j + 1, class) ELSE j

\* where the pattern  prefix class+  matches in s
Matches(s, prefix, class) ==
    {i \in 1..Len(s) :
        /\ OccursAt(s, i, prefix)
        /\ i + Len(prefix) <= Len(s)
        /\ s[i + Len(prefix)] \in class}

\* fault: the rightmost match is reported
LastMatch(s, prefix, class) ==
    LET i == CHOOSE i \in Matches(s, prefix, class) :
                \A j \in Matches(s, prefix, class) : j <= i
    IN  SubSeq(s, i, RunEnd(s, i + Len(prefix), class))

\* re.findall(pattern, s)[0]: the leftmost match, as long as it can be
FirstMatch(s, prefix, class) ==
    LET i == CHOOSE i \in Matches(s, prefix, class) :
                \A j \in Matches(s, prefix, class) : i <= j
    IN  SubSeq(s, i, RunEnd(s, i + Len(prefix), class))

\* fault: only the last characters of the log are scanned
ClaimFoundInTail(s) ==
    Matches(SubSeq(s, IF Len(s) > 3 THEN Len(s) - 2 ELSE 1, Len(s)),
            ClaimPrefix, Alnum) # {}

\* _detect_claim_url, lines 143-148 (lines 150-156 find nothing more)
ClaimFound(s) == Matches(s, ClaimPrefix, Alnum) # {}

\* _detect_tunnel_address, lines 204-205
TunnelFound(s) == \E w \in Indicators : Contains(Lower(s), w)

\* something appends to the log: a diagnostic of _log, lines 449-450
LogAppend ==
    /\ Len(log) < MaxLogLen
    /\ \E c \in LogChars : log' = Append(log, c)
    /\ UNCHANGED <<regvars, tunvars, claim_url, tunnel_address, det_ret, saving,
                   config>>

\* _detect_claim_url: the log is searched; failing that a line, if one can be
\* read from the child's pipe, is appended to the log and searched
DetectClaimUrl ==
    /\ \E line \in LogTexts(MaxLineLen) :
        /\ Len(log) + Len(line) <= MaxLogLen
        /\ ClaimFound(log) => line = <<>>
        /\ log' = log \o line
        /\ claim_url' = IF ClaimFound(log)
                        THEN FirstMatch(log, ClaimPrefix, Alnum)
                        ELSE IF ClaimFound(line)
                        THEN FirstMatch(line, ClaimPrefix, Alnum)
                        ELSE claim_url
        /\ det_ret' = IF ClaimFound(log) \/ ClaimFound(line)
                      THEN "claim_true" ELSE "claim_false"
    /\ UNCHANGED <<regvars, tunvars, tunnel_address, saving, config>>

\* _detect_tunnel_address
DetectTunnelAddress ==
    /\ tunnel_address' = IF TunnelFound(log) /\ Matches(log, TcpPrefix, NonBlank) # {}
                         THEN FirstMatch(log, TcpPrefix, NonBlank)
                         ELSE tunnel_address
    /\ det_ret' = IF TunnelFound(log) THEN "tunnel_true" ELSE "tunnel_false"
    /\ UNCHANGED <<regvars, tunvars, log, claim_url, saving, config>>

\* longest log followed while a whole start() is explored
MaxOutput == 7

\* what one readline() of the child's pipe may return while a whole start()
\* is explored: nothing, noise, a claim URL, a connection phrase with no
\* address, an address in upper case, two addresses, an address and a claim
\* URL
AgentLines ==
    {<<>>,
     <<"h">>,
     <<"h", "/", "h">>,
     <<"h", "t">>,
     <<"T", "/", "h">>,
     <<"t", "/", "h", " ", "t", "/", "T">>,
     <<"t", "/", "h", " ", "h", "/", "h">>}

(***************************************************************************)
(* start(), lines 94-127, called by the caller: one turn of the wait loop   *)
(* with the scan computed on the log (StartTick with its input worked out). *)
(* The diagnostics start() itself writes with _log repeat what was found    *)
(* and are left out of the text.                                            *)
(***************************************************************************)
StartScan ==
    /\ pc[0] = "start_wait"
    /\ \E line \in AgentLines, deadline \in BOOLEAN :
        LET lost == process = 0
            exited == Exited(process, child_alive)
            scan == ~deadline /\ ~lost /\ ~exited
            inlog == scan /\ ClaimFound(log)
            read == scan /\ ~inlog
            text == IF read THEN log \o line ELSE log
            claimed == inlog \/ (read /\ ClaimFound(line))
            up == scan /\ ~claimed /\ TunnelFound(text)
            url == IF inlog THEN FirstMatch(log, ClaimPrefix, Alnum)
                   ELSE IF claimed THEN FirstMatch(line, ClaimPrefix, Alnum)
                   ELSE claim_url
            addr == IF up /\ Matches(text, TcpPrefix, NonBlank) # {}
                    THEN FirstMatch(text, TcpPrefix, NonBlank)
                    ELSE tunnel_address
            monitor == up /\ ~health_running
            found == claimed \/ up
            failed == ~deadline /\ ~lost /\ exited
            tostop == deadline \/ lost
            hr == IF tostop THEN FALSE ELSE IF monitor THEN TRUE ELSE health_running
            st == WaitLoopState(tostop \/ failed, claimed, up, state)
        IN  /\ ~read => line = <<>>
            /\ Len(log) + Len(line) <= MaxOutput
            /\ monitor => \E t \in Threads : pc[t] = "dead"
            /\ log' = text
            /\ claim_url' = url
            /\ tunnel_address' = addr
            /\ det_ret' = IF claimed THEN "claim_true"
                          ELSE IF up THEN "tunnel_true"
                          ELSE IF scan THEN "tunnel_false" ELSE det_ret
            /\ state' = st
            /\ state_file' = IF found THEN SavedRecord(st, url, addr) ELSE state_file
            /\ health_running' = hr
            /\ health_thread' = IF monitor THEN 1 ELSE health_thread
            /\ reconnect_attempts' = AttemptsAfter(found /\ InRc(0), reconnect_attempts)
            /\ stop_from' = Spawned(monitor,
                    IF tostop THEN [stop_from EXCEPT ![0] = "start"] ELSE stop_from,
                    "-")
            /\ pc' = Spawned(monitor,
                    [pc EXCEPT ![0] = IF tostop THEN "stop_join"
                                      ELSE IF found \/ failed THEN "idle"
                                      ELSE "start_wait"],
                    "h_sleep")
            /\ cf' = Spawned(monitor, cf, 0)
            /\ rc_late' = LET left == IF found \/ failed THEN rc_late \ {0}
                                      ELSE rc_late
                          IN  IF monitor THEN {Displaced(x) : x \in left} ELSE left
            /\ fg_ret' = IF found THEN "True"
                         ELSE IF failed THEN "False" ELSE fg_ret
    /\ err_final' = (err_final /\ state' = "error")
    /\ UNCHANGED <<regvars, saving, config, process,
                 max_reconnect_attempts, last_reconnect_time,
                 wait_time, playit_pid, child_alive,
                 binary_exists, auto_reconnect, fg_op, fg_sig,
                 fg_streak, cap_hit, elapsed, slept>>

\* nothing scanned, nothing being saved
AuxAtRest ==
    /\ log = <<>>
    /\ claim_url = <<>>
    /\ tunnel_address = <<>>
    /\ det_ret = "-"
    /\ saving = 0
    /\ config = NoConfig

(***************************************************************************)
(* Specifications.  The registry and the tunnel manager share no state      *)
(* (PlayitManager keeps its own identifier file and never calls             *)
(* ProcessManager), so each is explored with the other at rest.             *)
(***************************************************************************)
\* the registry with no service registered and no call made
RegistryAtRest ==
    /\ pid_file = AbsentFile
    /\ alive = {}
    /\ op = "-"
    /\ ret = "-"
    /\ ret_pid = 0
    /\ signals = <<>>
    /\ removed = FALSE
    /\ streak = 0

\* a manager just constructed, nothing installed and nothing on disk
TunnelAtRest ==
    /\ InitTunnel
    /\ playit_pid = AbsentFile
    /\ binary_exists = FALSE
    /\ auto_reconnect = FALSE

\* the registry alone
InitRegistryOnly == InitReg /\ TunnelAtRest /\ AuxAtRest

SpecReg == InitRegistryOnly /\ [][NextReg]_vars

\* the tunnel manager alone
InitTunnelOnly == InitTunnel /\ RegistryAtRest /\ AuxAtRest

SpecTunnel == InitTunnelOnly /\ [][NextTunnel]_vars

\* a manager whose start() has returned with a claim URL (lines 102-106):
\* the child launched, no health monitor yet
AfterClaim ==
    /\ state = "waiting_claim"
    /\ process = 1
    /\ health_thread = 0
    /\ health_running = FALSE
    /\ reconnect_attempts = 0
    /\ max_reconnect_attempts = SmallCap
    /\ last_reconnect_time = FALSE
    /\ wait_time = 0
    /\ playit_pid = FileWith(Str(1))
    /\ state_file = SavedState("waiting_claim")
    /\ child_alive = {1}
    /\ binary_exists = TRUE
    /\ auto_reconnect = TRUE
    /\ pc = [a \in Actors |-> IF a = 0 THEN "idle" ELSE "dead"]
    /\ cf = [t \in Threads |-> 0]
    /\ stop_from = [a \in Actors |-> "-"]
    /\ fg_op = "start"
    /\ fg_ret = "True"
    /\ fg_sig = FALSE
    /\ fg_streak = 0
    /\ cap_hit = FALSE
    /\ rc_late = {}
    /\ err_final = FALSE
    /\ elapsed = 0
    /\ slept = 0

\* a manager just constructed, with whatever identifier file an earlier run
\* left and no agent of that run alive
NewManager ==
    /\ InitTunnel
    /\ ~binary_exists
    /\ ~auto_reconnect

\* Stop on both components: every registry call, and the caller's stop() on
\* a manager that is new or holds a claimed child
InitStop == InitReg /\ AuxAtRest /\ (NewManager \/ AfterClaim)

NextStop ==
    \/ NextReg
    \/ FgStop
    \/ StopJoin(0)
    \/ ChildExit

SpecStop == InitStop /\ [][NextStop]_vars

\* reconnect() called again and again on a manager with the default cap and
\* no binary installed (each start() inside it leaves with FileNotFoundError):
\* the backoff for every attempt number
InitBackoff ==
    /\ RegistryAtRest
    /\ AuxAtRest
    /\ state = "stopped"
    /\ process = 0
    /\ health_thread = 0
    /\ health_running = FALSE
    /\ reconnect_attempts \in 0..DefaultCap
    /\ max_reconnect_attempts = DefaultCap
    /\ last_reconnect_time \in BOOLEAN
    /\ wait_time = 0
    /\ playit_pid = AbsentFile
    /\ state_file \in {NoStateFile, SavedState("stopped")}
    /\ child_alive = {}
    /\ binary_exists = FALSE
    /\ auto_reconnect \in BOOLEAN
    /\ pc = [a \in Actors |-> IF a = 0 THEN "idle" ELSE "dead"]
    /\ cf = [t \in Threads |-> 0]
    /\ stop_from = [a \in Actors |-> "-"]
    /\ fg_op = "-"
    /\ fg_ret = "-"
    /\ fg_sig = FALSE
    /\ fg_streak = 0
    /\ cap_hit = FALSE
    /\ rc_late = {}
    /\ err_final = FALSE
    /\ elapsed = 0
    /\ slept = 0

NextBackoff ==
    \/ FgReconnect
    \/ StopJoin(0)

SpecBackoff == InitBackoff /\ [][NextBackoff]_vars

\* the same calls with time passing between them
NextPace ==
    \/ NextBackoff
    \/ Pass

SpecPace == InitBackoff /\ [][NextPace]_vars

\* a manager whose start() has returned Connected (lines 108-113): the child
\* running, one health loop in its first interval sleep; the attempt counter
\* is whatever earlier failed reconnect() calls of the caller left
AfterConnected ==
    /\ state = "connected"
    /\ process = 1
    /\ health_thread = 1
    /\ health_running = TRUE
    /\ reconnect_attempts \in 0..DefaultCap
    /\ max_reconnect_attempts = DefaultCap
    /\ last_reconnect_time = (reconnect_attempts > 0)
    /\ wait_time = IF reconnect_attempts > 0
                   THEN BackoffDelay(reconnect_attempts) ELSE 0
    /\ playit_pid = FileWith(Str(1))
    /\ state_file = SavedState("connected")
    /\ child_alive = {1}
    /\ binary_exists = TRUE
    /\ auto_reconnect \in BOOLEAN
    /\ pc = [a \in Actors |-> IF a = 0 THEN "idle"
                               ELSE IF a = 1 THEN "h_sleep" ELSE "dead"]
    /\ cf = [t \in Threads |-> 0]
    /\ stop_from = [a \in Actors |-> "-"]
    /\ fg_op = "start"
    /\ fg_ret = "True"
    /\ fg_sig = FALSE
    /\ fg_streak = 0
    /\ cap_hit = FALSE
    /\ rc_late = {}
    /\ err_final = FALSE
    /\ elapsed = 0
    /\ slept = 0

\* the health loop left to itself: the caller calls nothing more, the child
\* runs on or exits
InitWatch == RegistryAtRest /\ AuxAtRest /\ AfterConnected

NextWatch ==
    \/ HealthCheck(1)
    \/ StopJoin(1)
    \/ ChildExit

SpecWatch == InitWatch /\ [][NextWatch]_vars

\* start()'s wait loop scanning the log it truncated at line 75, while the
\* log grows
InitDetect == RegistryAtRest /\ TunnelAtRest /\ AuxAtRest

NextDetect ==
    \/ LogAppend
    \/ DetectClaimUrl
    \/ DetectTunnelAddress

SpecDetect == InitDetect /\ [][NextDetect]_vars

\* one thread saving an id while others probe or stop the same identifier
\* file
InitFile == InitReg /\ TunnelAtRest /\ AuxAtRest

NextFile ==
    \/ \E p \in Pids : SaveOpen(p)
    \/ SaveClose
    \/ IsRunning
    \/ GetPid
    \/ StopProcess
    \/ ProcExit
    \/ ProcSpawn

SpecFile == InitFile /\ [][NextFile]_vars

\* a manager just constructed, the binary installed, auto-reconnect off,
\* no agent running, the identifier file absent or unreadable
NewSupervisor ==
    /\ state = "stopped"
    /\ process = 0
    /\ health_thread = 0
    /\ health_running = FALSE
    /\ reconnect_attempts = 0
    /\ max_reconnect_attempts = DefaultCap
    /\ last_reconnect_time = FALSE
    /\ wait_time = 0
    /\ playit_pid \in {AbsentFile, FileWith(<<"x">>)}
    /\ state_file = NoStateFile
    /\ child_alive = {}
    /\ binary_exists = TRUE
    /\ auto_reconnect = FALSE
    /\ pc = [a \in Actors |-> IF a = 0 THEN "idle" ELSE "dead"]
    /\ cf = [t \in Threads |-> 0]
    /\ stop_from = [a \in Actors |-> "-"]
    /\ fg_op = "-"
    /\ fg_ret = "-"
    /\ fg_sig = FALSE
    /\ fg_streak = 0
    /\ cap_hit = FALSE
    /\ rc_late = {}
    /\ err_final = FALSE
    /\ elapsed = 0
    /\ slept = 0

\* the life of the tunnel over runs of the supervisor: the caller starts,
\* asks and stops, start() scans what the agent prints, the supervisor is
\* run again
InitLife == RegistryAtRest /\ AuxAtRest /\ NewSupervisor

NextLife ==
    \/ FgStart
    \/ StartLaunch(0)
    \/ StartScan
    \/ FgStop
    \/ StopJoin(0)
    \/ FgIsRunning
    \/ ChildExit
    \/ Restart

SpecLife == InitLife /\ [][NextLife]_vars

\* the supervisor starting over the run directory an earlier run left: two
\* identifier files with any text, any processes in the table (alive holds
\* every process here), services writing their files afterwards
InitClean ==
    /\ InitReg
    /\ AuxAtRest
    /\ state = "stopped"
    /\ process = 0
    /\ health_thread = 0
    /\ health_running = FALSE
    /\ reconnect_attempts = 0
    /\ max_reconnect_attempts = DefaultCap
    /\ last_reconnect_time = FALSE
    /\ wait_time = 0
    /\ playit_pid \in {AbsentFile} \cup {FileWith(t) : t \in TextsUpTo(MaxTextLen)}
    /\ state_file = NoStateFile
    /\ child_alive = {}
    /\ binary_exists = TRUE
    /\ auto_reconnect = FALSE
    /\ pc = [a \in Actors |-> IF a = 0 THEN "idle" ELSE "dead"]
    /\ cf = [t \in Threads |-> 0]
    /\ stop_from = [a \in Actors |-> "-"]
    /\ fg_op = "-"
    /\ fg_ret = "-"
    /\ fg_sig = FALSE
    /\ fg_streak = 0
    /\ cap_hit = FALSE
    /\ rc_late = {}
    /\ err_final = FALSE
    /\ elapsed = 0
    /\ slept = 0

NextClean ==
    \/ CleanupStalePids
    \/ \E p \in Pids : SavePid(p)
    \/ ProcExit
    \/ ProcSpawn

SpecClean == InitClean /\ [][NextClean]_vars

\* field texts json.loads rejects: a file cut short before the value, a
\* string left open, a string in single quotes
DamagedTexts == {<<>>, <<"\"", "h">>, <<"'", "h", "'">>}

\* state files an earlier run may have left: written by _save_state, then
\* possibly damaged
LeftStateFiles ==
    {[exists |-> TRUE, state |-> "connected", claim_url |-> u,
      tunnel_address |-> a] :
        u \in {JsonDump(<<>>), JsonDump(<<"h">>)} \cup DamagedTexts,
        a \in {JsonDump(<<>>), JsonDump(<<"t">>)} \cup DamagedTexts}

\* the files of the tunnel as an earlier run may have left them
LeftBehind ==
    /\ state = "stopped"
    /\ process = 0
    /\ health_thread = 0
    /\ health_running = FALSE
    /\ reconnect_attempts = 0
    /\ max_reconnect_attempts = DefaultCap
    /\ last_reconnect_time = FALSE
    /\ wait_time = 0
    /\ playit_pid \in {AbsentFile} \cup {FileWith(t) : t \in TextsUpTo(MaxTextLen)}
    /\ state_file \in LeftStateFiles
    /\ child_alive \in SUBSET ChildPids
    /\ binary_exists = TRUE
    /\ auto_reconnect = FALSE
    /\ pc = [a \in Actors |-> IF a = 0 THEN "idle" ELSE "dead"]
    /\ cf = [t \in Threads |-> 0]
    /\ stop_from = [a \in Actors |-> "-"]
    /\ fg_op = "-"
    /\ fg_ret = "-"
    /\ fg_sig = FALSE
    /\ fg_streak = 0
    /\ cap_hit = FALSE
    /\ rc_late = {}
    /\ err_final = FALSE
    /\ elapsed = 0
    /\ slept = 0

\* reading what is on disk: a manager is constructed over the state file,
\* the identifier files are probed
InitRead ==
    /\ AuxAtRest
    /\ \/ InitReg /\ NewSupervisor
       \/ RegistryAtRest /\ LeftBehind

NextRead ==
    \/ Restart
    \/ FgIsRunning
    \/ IsRunning
    \/ GetPid

SpecRead == InitRead /\ [][NextRead]_vars

\* services launched, through their managers and by start_process itself,
\* stopped, and exiting on their own
NextLaunch ==
    \/ StartProcess
    \/ ServiceStart
    \/ StopProcess
    \/ ProcExit

SpecLaunch == InitRegistryOnly /\ [][NextLaunch]_vars

(***************************************************************************)
(* Properties.                                                              *)
(***************************************************************************)
\* the identifier file names no existing process: it is absent, or its text
\* is not the decimal form of the id of a process that exists
NoLiveService(f, procs) ==
    ~(f.exists /\ \E p \in procs : Strip(f.text) = Str(p))

\* C1: whenever stop_process has returned True, the identifier file does not
\* exist and is_running on that file returns False.
C1_StopRemovesFile ==
    (op = "stop_process" /\ ret = "True")
        => (~pid_file.exists /\ ProbePid(pid_file, alive) = 0)

\* stop_process returned True after SIGTERM and SIGKILL, the file unlinked
C1_Witness ==
    /\ op = "stop_process"
    /\ ret = "True"
    /\ signals = <<"TERM", "KILL">>
    /\ removed

\* C2: a stop with no live process behind it succeeds and touches nothing:
\* stop_process returns True, delivers no signal and leaves the identifier
\* file absent; the tunnel's stop() returns without raising, signals nothing,
\* and leaves the identifier file absent, the handle cleared and the state
\* Stopped.  This holds for every such call, so for the second of two in a row.
C2_StopIdempotent ==
    [][/\ (StopProcess /\ NoLiveService(pid_file, alive))
            => (ret' = "True" /\ signals' = <<>> /\ ~pid_file'.exists)
       /\ (StopJoin(0) /\ stop_from[0] = "call"
             /\ process \notin child_alive
             /\ NoLiveService(playit_pid, child_alive))
            => (/\ fg_ret' = "None"
                /\ ~fg_sig'
                /\ ~playit_pid'.exists
                /\ process' = 0
                /\ state' = "stopped")]_vars

\* both components stopped twice in a row, the second time with nothing live
C2_Witness ==
    /\ streak = 2
    /\ op = "stop_process"
    /\ ret = "True"
    /\ signals = <<>>
    /\ fg_streak = 2
    /\ fg_op = "stop"
    /\ fg_ret = "None"
    /\ ~fg_sig
    /\ state = "stopped"

C4_SingleChild == Cardinality(child_alive \cap ChildPids) <= 1

\* C5 as stated: the attempt counter never exceeds the cap.
C5_CounterWithinCap == reconnect_attempts <= max_reconnect_attempts

\* C5 as the code has it: a reconnect() that goes on to Reconnecting has
\* counted an attempt number within the cap; the counter itself is
\* incremented before the comparison and may stand above the cap.
C5_ProceedsWithinCap ==
    [][(reconnect_attempts' = reconnect_attempts + 1 /\ state' = "reconnecting")
        => reconnect_attempts' <= max_reconnect_attempts]_vars

\* a reconnect() under way with the counter exactly at the cap
C5_Witness ==
    /\ reconnect_attempts = max_reconnect_attempts
    /\ state = "reconnecting"
    /\ \E a \in Actors : pc[a] = "stop_join" /\ stop_from[a] = "reconnect"

\* C6 (last part): no health loop whose reconnect() began after some
\* reconnect() found the count over the cap gets as far as start()'s launch.
C6_NoStartAfterCap ==
    \A t \in Threads \cap rc_late : pc[t] \notin {"start_launch", "start_wait"}

\* C7: the delay reconnect() computes for attempt n, 1 <= n <= cap, is
\* min(2^n, 60): 2, 4, 8, 16, 32 and then 60 from n = 6 on.
C7_BackoffDelay ==
    LET table == <<2, 4, 8, 16, 32, 60, 60, 60, 60, 60>>
    IN  (pc[0] = "stop_join" /\ stop_from[0] = "reconnect")
            => (/\ reconnect_attempts \in 1..DefaultCap
                /\ wait_time = table[reconnect_attempts])

\* attempt 6, the first whose delay is the ceiling
C7_Witness ==
    /\ pc[0] = "stop_join"
    /\ stop_from[0] = "reconnect"
    /\ reconnect_attempts = 6
    /\ wait_time = 60

\* C8: a health loop calls reconnect() only on the check that takes its
\* consecutive-failure counter to the threshold, and whenever it is back in
\* its interval sleep the counter is below the threshold, at zero after a
\* reconnect() that returned.
C8_OncePerStreak ==
    [][\A t \in Threads :
        /\ (HealthCheck(t) /\ reconnect_attempts' # reconnect_attempts)
              => (cf[t] + 1 = max_failures /\ auto_reconnect)
        /\ (HealthCheck(t) /\ reconnect_attempts' # reconnect_attempts
              /\ pc'[t] = "h_sleep")
              => cf'[t] = 0
        /\ (pc[t] \in {"stop_join", "start_launch", "start_wait"}
              /\ pc'[t] = "h_sleep")
              => cf'[t] = 0
        /\ pc'[t] = "h_sleep" => cf'[t] < max_failures]_vars

\* a health loop inside the reconnect() its third failing check called
C8_Witness ==
    \E t \in Threads :
        /\ pc[t] = "stop_join"
        /\ stop_from[t] = "reconnect"
        /\ cf[t] = max_failures
        /\ state = "reconnecting"

\* C9: from the return of the caller's stop() until the caller's next call,
\* no step changes the attempt counter and the state stays Stopped.
C9_StopIsFinal ==
    [][(/\ fg_op = "stop" /\ pc[0] = "idle"
        /\ fg_op' = "stop" /\ pc'[0] = "idle")
        => (reconnect_attempts' = reconnect_attempts /\ state' = "stopped")]_vars

\* C10: at most one health loop is alive.
C10_OneHealthLoop == Cardinality({t \in Threads : pc[t] # "dead"}) <= 1

\* C11: a health loop's reconnect(), once past the cap test, carries on: its
\* stop() terminates the child and clears the handle, and start() is entered
\* (state Starting, on the way to the launch), so Reconnecting is left.
C11_ReconnectProceeds ==
    [][\A t \in Threads :
        (StopJoin(t) /\ stop_from[t] = "reconnect" /\ binary_exists)
            => (/\ pc'[t] = "start_launch"
                /\ state' = "starting"
                /\ process' = 0
                /\ process \notin child_alive')]_vars

\* C12: start() called with the binary missing and nothing running returns
\* False to the caller and launches nothing.
C12_MissingBinaryFails ==
    [][(FgStart /\ ~binary_exists
          /\ ~TunnelRunning(process, child_alive, playit_pid))
        => (fg_ret' = "False" /\ child_alive' = child_alive)]_vars

\* C13: no operation ends in an uncaught exception: no call of the caller
\* raises, and the stop() a health loop runs inside reconnect() returns
\* instead of ending the loop's thread.
C13_NoUncaughtFault ==
    [][/\ fg_ret' # "raise"
       /\ \A t \in Threads :
            (StopJoin(t) /\ stop_from[t] = "reconnect" /\ binary_exists)
                => pc'[t] # "dead"]_vars

\* C14: when the caller's start() gives up with its child still running (the
\* deadline passed with nothing detected), the stop() it calls terminates the
\* child and start() returns False with the state Error.
C14_TimeoutEndsInError ==
    [][(StopJoin(0) /\ stop_from[0] = "start"
          /\ process # 0 /\ process \in child_alive)
        => (/\ fg_ret' = "False"
            /\ process \notin child_alive'
            /\ state' = "error")]_vars

\* C15: when the caller's start() finds that its child has exited before
\* anything was detected, it returns False with the state Error, starts no
\* health loop, and is_running() is False right after.
C15_EarlyExitFails ==
    [][(StartTick(0) /\ process # 0 /\ process \notin child_alive
          /\ pc'[0] = "idle")
        => (/\ fg_ret' = "False"
            /\ state' = "error"
            /\ health_thread' = health_thread
            /\ health_running' = health_running
            /\ \A t \in Threads : pc'[t] = pc[t]
            /\ ~TunnelRunning(process', child_alive', playit_pid'))]_vars

\* start() has just returned False on a child that exited during the wait
C15_Witness ==
    /\ fg_op = "start"
    /\ fg_ret = "False"
    /\ pc[0] = "idle"
    /\ state = "error"
    /\ process # 0
    /\ process \notin child_alive
    /\ playit_pid = FileWith(Str(process))

\* C16: when the caller's stop() returns, the state is Stopped, the saved
\* record says Stopped, the identifier file is absent, the handle is cleared
\* and the health flag is false.
C16_StopPostState ==
    [][(StopJoin(0) /\ stop_from[0] = "call")
        => (/\ state' = "stopped"
            /\ state_file' = SavedState("stopped")
            /\ ~playit_pid'.exists
            /\ process' = 0
            /\ ~health_running')]_vars

\* C17: with the child alive and nobody but the health loop writing to the
\* log, a check that follows a failing check fails too (the log is as stale
\* as it was), so the streak grows until the loop acts at the threshold.
C17_SilenceAccumulates ==
    [][(HealthCheck(1) /\ cf[1] > 0 /\ process \in child_alive)
        => (cf'[1] > cf[1] \/ pc'[1] # "h_sleep")]_vars

\* C18: while the log only grows, a log in which a claim URL (a connection
\* indicator) is found stays one in which it is found; _detect_claim_url and
\* _detect_tunnel_address return True on every such log, what
\* _detect_claim_url found in a line of the pipe is found in the log after,
\* and a claim URL or tunnel address once reported is never absent again.
C18_DetectionMonotonic ==
    [][/\ ClaimFound(log) => ClaimFound(log')
       /\ TunnelFound(log) => TunnelFound(log')
       /\ (DetectClaimUrl /\ ClaimFound(log)) => det_ret' = "claim_true"
       /\ (DetectTunnelAddress /\ TunnelFound(log)) => det_ret' = "tunnel_true"
       /\ det_ret' = "claim_true" => ClaimFound(log')
       /\ claim_url # <<>> => claim_url' # <<>>
       /\ tunnel_address # <<>> => tunnel_address' # <<>>]_vars

\* a claim URL detected and the log gone on growing to its full length
C18_Witness ==
    /\ det_ret = "claim_true"
    /\ claim_url # <<>>
    /\ Len(log) = MaxLogLen
    /\ log[Len(log)] = " "
    /\ Len(claim_url) < MaxLogLen - 1

\* C19: stop_process with force=False on a live process that is still there
\* when the timeout has passed returns False, has sent SIGTERM and nothing
\* else, leaves the process running and the identifier file as it was, so
\* that a probe of the file still finds the process.
C19_NoForceLeavesRunning ==
    \A timeout \in Timeouts :
        LET pid == ProbePid(pid_file, alive)
            r == StopResult(pid_file, alive, FALSE, timeout, "survives")
        IN  pid # 0 =>
                /\ r.ret = "False"
                /\ r.signals = <<"TERM">>
                /\ r.procs = alive
                /\ r.file = pid_file
                /\ ProbePid(r.file, r.procs) = pid

\* stop_process has returned False with the process alive and still named
C19_Witness ==
    /\ op = "stop_process"
    /\ ret = "False"
    /\ signals = <<"TERM">>
    /\ pid_file.exists
    /\ ProbePid(pid_file, alive) # 0

\* C20: a probe that runs while the id of a live process is being saved does
\* not remove the identifier file, and when the save is done the file holds
\* that id.
C20_SaveIsAtomic ==
    [][/\ ((IsRunning \/ GetPid) /\ saving # 0 /\ saving \in alive)
            => pid_file'.exists
       /\ (SaveClose /\ saving \in alive)
            => pid_file' = FileWith(Str(saving))]_vars

\* C21: a turn of start()'s wait loop that has scanned a log holding a
\* connection indicator and a tcp:// token and no claim URL returns True with
\* the state Connected and the tunnel address the first tcp:// token of the
\* log: the leftmost "tcp://" followed by a non-blank character, up to the
\* next white space.
C21_FirstAddressReported ==
    [][(/\ StartScan
        /\ pc'[0] # "stop_join"
        /\ process \in child_alive
        /\ TunnelFound(log')
        /\ Matches(log', TcpPrefix, NonBlank) # {}
        /\ ~ClaimFound(log'))
        => (/\ fg_ret' = "True"
            /\ pc'[0] = "idle"
            /\ state' = "connected"
            /\ \E i \in 1..Len(log'), j \in 1..Len(log') :
                /\ tunnel_address' = SubSeq(log', i, j)
                /\ OccursAt(log', i, TcpPrefix)
                /\ j >= i + Len(TcpPrefix)
                /\ \A k \in i..j : log'[k] # " "
                /\ j = Len(log') \/ log'[j + 1] = " "
                /\ \A k \in 1..(i - 1) :
                     ~(OccursAt(log', k, TcpPrefix)
                       /\ log'[k + Len(TcpPrefix)] # " "))]_vars

\* start() has returned Connected on a log with two addresses, the first
\* reported
C21_Witness ==
    /\ fg_op = "start"
    /\ fg_ret = "True"
    /\ pc[0] = "idle"
    /\ state = "connected"
    /\ det_ret = "tunnel_true"
    /\ Len(log) = MaxOutput
    /\ tunnel_address = <<"t", "/", "h">>
    /\ Cardinality(Matches(log, TcpPrefix, NonBlank)) = 2

\* C22: every persist writes the state, claim URL and tunnel address the
\* manager holds, and a manager constructed over the state file holds the
\* state, claim URL and tunnel address of that record, with the claim URL and
\* tunnel address it recovered in the configuration store.
C22_ReloadRoundTrip ==
    [][/\ (state_file' # state_file)
            => (/\ state_file'.state = state'
                /\ JsonLoad(state_file'.claim_url) = claim_url'
                /\ JsonLoad(state_file'.tunnel_address) = tunnel_address')
       /\ (Restart /\ state_file.exists)
            => (/\ state' = state_file.state
                /\ claim_url' = JsonLoad(state_file.claim_url)
                /\ tunnel_address' = JsonLoad(state_file.tunnel_address)
                /\ claim_url' # <<>> => config'.claim_url = claim_url'
                /\ tunnel_address' # <<>>
                     => config'.tunnel_address = tunnel_address')]_vars

C24_FailureCounter ==
    [][\A fresh \in BOOLEAN :
        HealthCheckOn(1, fresh)
        => LET healthy == process # 0 /\ process \in child_alive /\ fresh
           IN  /\ healthy => cf'[1] = 0
               /\ (~healthy /\ pc'[1] = "stop_join") => cf'[1] = cf[1] + 1
               /\ (~healthy /\ pc'[1] = "h_sleep"
                     /\ reconnect_attempts' = reconnect_attempts)
                    => cf'[1] = cf[1] + 1
               /\ (pc'[1] = "h_sleep"
                     /\ reconnect_attempts' # reconnect_attempts)
                    => cf'[1] = 0
               /\ cf'[1] <= max_failures]_vars

\* the third failing check in a row called reconnect(), which gave up over
\* the cap and returned: the loop sleeps again with the counter at zero
C24_Witness ==
    /\ pc[1] = "h_sleep"
    /\ cf[1] = 0
    /\ reconnect_attempts = DefaultCap + 1
    /\ state = "error"
    /\ process \notin child_alive

\* C25: with auto-reconnect off, the failing check that takes the counter to
\* the threshold sets the state Error, clears the health flag and ends the
\* loop; no reconnect(), stop() or start() runs: the attempt counter, the
\* backoff, the timestamp, the handle, the processes and the saved record
\* are as they were.
C25_GivesUpQuietly ==
    [][\A fresh \in BOOLEAN :
        (/\ HealthCheckOn(1, fresh)
         /\ ~auto_reconnect
         /\ ~(process # 0 /\ process \in child_alive /\ fresh)
         /\ cf[1] + 1 = max_failures)
        => (/\ state' = "error"
            /\ ~health_running'
            /\ pc'[1] = "dead"
            /\ reconnect_attempts' = reconnect_attempts
            /\ wait_time' = wait_time
            /\ last_reconnect_time' = last_reconnect_time
            /\ process' = process
            /\ child_alive' = child_alive
            /\ state_file' = state_file
            /\ stop_from' = stop_from)]_vars

\* the loop has ended itself in Error after three failing checks, with the
\* attempts left by earlier reconnects untouched
C25_Witness ==
    /\ ~auto_reconnect
    /\ state = "error"
    /\ pc[1] = "dead"
    /\ ~health_running
    /\ health_thread = 1
    /\ process = 1
    /\ child_alive = {}
    /\ reconnect_attempts = 2
    /\ state_file = SavedState("connected")

\* C26: every reconnect() of the caller counts one attempt; when the start()
\* inside it returns True the attempt counter is set to zero; when that
\* start() returns False (the child exited, or the deadline passed and the
\* child was stopped) or raises, the counter is left as counted.
C26_ResetOnSuccessOnly ==
    [][/\ FgReconnect => reconnect_attempts' = reconnect_attempts + 1
       /\ (StartTick(0) /\ fg_op = "reconnect" /\ fg_ret' = "True")
            => reconnect_attempts' = 0
       /\ (StartTick(0) /\ fg_op = "reconnect" /\ fg_ret' # "True")
            => reconnect_attempts' = reconnect_attempts
       /\ (StartLaunch(0) /\ fg_op = "reconnect")
            => reconnect_attempts' = reconnect_attempts
       /\ (StopJoin(0) /\ fg_op = "reconnect")
            => reconnect_attempts' = reconnect_attempts]_vars

\* the caller's reconnect() has returned True on a tunnel found connected,
\* the attempt it had counted cleared
C26_Witness ==
    /\ fg_op = "reconnect"
    /\ fg_ret = "True"
    /\ pc[0] = "idle"
    /\ state = "connected"
    /\ last_reconnect_time
    /\ wait_time = BackoffDelay(1)
    /\ reconnect_attempts = 0

\* C27: when a reconnect() of the caller goes on to stop the process, its
\* attempt number n is within the cap and, if an earlier attempt recorded a
\* timestamp, the time since that timestamp plus the time just slept is at
\* least min(2^n, 60) seconds; the sleep is exactly what was missing to that
\* delay, nothing if that much time had passed already, and nothing if there
\* was no earlier attempt.
C27_BackoffSpacing ==
    [][(FgReconnect /\ pc'[0] = "stop_join")
        => LET n == reconnect_attempts'
               floor == IF 2 ^ n < 60 THEN 2 ^ n ELSE 60
           IN  /\ n <= max_reconnect_attempts
               /\ last_reconnect_time'
               /\ elapsed' = 0
               /\ last_reconnect_time
                    => (/\ elapsed + slept' >= floor
                        /\ elapsed < floor => slept' = floor - elapsed
                        /\ elapsed >= floor => slept' = 0)
               /\ ~last_reconnect_time => slept' = 0]_vars

\* attempt 3 made three seconds after attempt 2: five of its eight seconds
\* slept
C27_Witness ==
    /\ pc[0] = "stop_join"
    /\ stop_from[0] = "reconnect"
    /\ reconnect_attempts = 3
    /\ wait_time = 8
    /\ slept = 5
    /\ elapsed = 0

\* C28: every step that changes the tunnel state takes it along a transition
\* of the design: Stopped to Starting, Starting to WaitingClaim, WaitingClaim
\* to Connected, Starting or WaitingClaim to Error, Connected to
\* Reconnecting, Reconnecting to Starting, Reconnecting to Error, or to
\* Stopped from anywhere, and that only in a stop().
C28_DesignTransitions ==
    [][state' # state
        => \/ <<state, state'>> \in
                {<<"stopped", "starting">>,
                 <<"starting", "waiting_claim">>,
                 <<"waiting_claim", "connected">>,
                 <<"starting", "error">>,
                 <<"waiting_claim", "error">>,
                 <<"connected", "reconnecting">>,
                 <<"reconnecting", "starting">>,
                 <<"reconnecting", "error">>}
           \/ state' = "stopped" /\ \E a \in Actors : StopJoin(a)]_vars

\* C29: when a start() of the caller returns with the state Connected, the
\* health flag is set and a health loop is alive; when it returns True on a
\* claim URL, the state is WaitingClaim, the record saved holds that state
\* and that URL, and the call has started no health loop: the flag, the
\* thread handle and the loops are as they were.
C29_MonitorOnConnected ==
    [][/\ ((FgStart \/ StartTick(0) \/ StartScan)
             /\ fg_op' = "start" /\ pc'[0] = "idle" /\ fg_ret' = "True"
             /\ state' = "connected")
            => (/\ health_running'
                /\ health_thread' # 0
                /\ \E t \in Threads : pc'[t] # "dead")
       /\ ((StartTick(0) \/ StartScan)
             /\ fg_op' = "start" /\ pc'[0] = "idle" /\ fg_ret' = "True"
             /\ state' # "connected")
            => (/\ state' = "waiting_claim"
                /\ claim_url' # <<>>
                /\ state_file'.exists
                /\ state_file'.state = "waiting_claim"
                /\ JsonLoad(state_file'.claim_url) = claim_url'
                /\ health_running' = health_running
                /\ health_thread' = health_thread
                /\ \A t \in Threads : pc'[t] = pc[t])]_vars

\* start() has returned True on a claim URL: WaitingClaim, the URL in the
\* saved record, no health loop
C29_Witness ==
    /\ fg_op = "start"
    /\ fg_ret = "True"
    /\ pc[0] = "idle"
    /\ state = "waiting_claim"
    /\ claim_url = <<"h", "/", "h">>
    /\ state_file.claim_url = <<"\"", "h", "/", "h", "\"">>
    /\ ~health_running
    /\ health_thread = 0
    /\ \A t \in Threads : pc[t] = "dead"

\* C30: whatever stop_process is called with and whatever the process does,
\* SIGKILL is never the first signal sent: it follows SIGTERM, and is sent
\* only with force set and the process still there after every poll up to
\* the deadline; when the process is seen gone by a poll, SIGTERM is all that
\* was sent, the identifier file is removed and True is returned.
C30_GracefulBeforeKill ==
    \A force \in BOOLEAN, timeout \in Timeouts, outcome \in Outcomes :
        LET r == StopResult(pid_file, alive, force, timeout, outcome)
            killed == \E i \in 1..Len(r.signals) : r.signals[i] = "KILL"
        IN  /\ killed => (/\ r.signals = <<"TERM", "KILL">>
                          /\ force
                          /\ outcome = "survives")
            /\ (ProbePid(pid_file, alive) # 0 /\ outcome = "exits" /\ timeout > 0)
                => (/\ r.signals = <<"TERM">>
                    /\ ~r.file.exists
                    /\ r.ret = "True")

\* stop_process has returned True after SIGTERM alone, the file removed
C30_Witness ==
    /\ op = "stop_process"
    /\ ret = "True"
    /\ signals = <<"TERM">>
    /\ removed
    /\ ~pid_file.exists

C32_MalformedIsAbsent ==
    [][LET numeric(f) ==
               \E n \in 0..(10 ^ Len(Strip(f.text)) - 1) : Strip(f.text) = Str(n)
       IN  /\ (  /\ Restart
                 /\ \/ state_file.claim_url \in DamagedTexts
                    \/ state_file.tunnel_address \in DamagedTexts)
              => /\ claim_url' = <<>>
                 /\ tunnel_address' = <<>>
                 /\ state' = "stopped"
                 /\ config' = config
           /\ (IsRunning /\ pid_file.exists /\ ~numeric(pid_file))
              => op' = "is_running" /\ ret' = "False"
           /\ (GetPid /\ pid_file.exists /\ ~numeric(pid_file))
              => op' = "get_pid" /\ ret' = "None" /\ ret_pid' = 0
           /\ (  /\ FgIsRunning
                 /\ process = 0
                 /\ playit_pid.exists
                 /\ ~numeric(playit_pid))
              => fg_op' = "is_running" /\ fg_ret' = "False"]_vars

\* a manager constructed over a state file whose claim URL is sound and
\* whose address is damaged
C32_Witness ==
    /\ fg_op = "__init__"
    /\ state_file.exists
    /\ state_file.claim_url = JsonDump(<<"h">>)
    /\ state_file.tunnel_address \in DamagedTexts
    /\ claim_url = <<>>
    /\ state = "stopped"

(***************************************************************************)
(* C33: a launch, by start_process itself or through a service manager,     *)
(* writes a process id into the identifier file only when the file does     *)
(* not name a live process: it is absent, or it was stale and invalidated.  *)
(***************************************************************************)
C33_OneHandlePerService ==
    [][(StartProcess \/ ServiceStart) /\ pid_file' # pid_file
          => ~(  /\ pid_file.exists
                 /\ \E p \in alive : Strip(pid_file.text) = Str(p))]_vars

(***************************************************************************)
(* C34: when the caller's stop() returns, the tunnel agent is not alive:    *)
(* neither the child the manager held a handle of, nor, when it held none,  *)
(* the process the identifier file named, for which is_running() answered   *)
(* True.                                                                    *)
(***************************************************************************)
C34_StopLeavesNoAgent ==
    [][StopJoin(0) /\ stop_from[0] = "call"
          => /\ process \notin child_alive'
             /\ \A p \in child_alive :
                    (playit_pid.exists /\ Strip(playit_pid.text) = Str(p))
                        => p \notin child_alive']_vars

(***************************************************************************)
(* C35: once the state is Error because reconnect() found the attempts      *)
(* over the cap, or because the health loop gave up with auto-reconnect     *)
(* off, only a step of the caller's start(), stop() or reconnect() changes  *)
(* the state; no step of a health-loop thread does.                         *)
(***************************************************************************)
C35_ErrorStaysUntilOperator ==
    [][(err_final /\ state' # state)
          => \/ FgStart
             \/ FgReconnect
             \/ StartLaunch(0)
             \/ StartTick(0)
             \/ StopJoin(0)]_vars

(***************************************************************************)
(* C36: the attempt counter goes back to 0 only when the start() inside a   *)
(* reconnect() succeeds, so stop() and start() called by the operator leave *)
(* it as it is; and once some reconnect() has found it over the cap, every  *)
(* later reconnect() of a health loop sets Error and returns without        *)
(* entering stop() and start().                                             *)
(***************************************************************************)
C36_CapIsFinal ==
    [][/\ reconnect_attempts' < reconnect_attempts
          => /\ reconnect_attempts' = 0
             /\ \E a \in Actors : StartTick(a) /\ InRc(a)
             /\ state' \in {"connected", "waiting_claim"}
       /\ \A t \in Threads :
              (  /\ cap_hit
                 /\ HealthCheck(t)
                 /\ reconnect_attempts' = reconnect_attempts + 1)
              => /\ state' = "error"
                 /\ pc'[t] # "stop_join"]_vars

(***************************************************************************)
(* C37: in the step in which the caller's start(), stop() or reconnect()    *)
(* returns, the state file exists and the state it records is the state    *)
(* the manager holds, Error included.                                       *)
(***************************************************************************)
C37_SavedStateIsCurrent ==
    [][(  /\ \/ FgStart
             \/ FgReconnect
             \/ StartLaunch(0)
             \/ StartTick(0)
             \/ StopJoin(0)
          /\ pc'[0] = "idle"
          /\ fg_ret' \in {"True", "False", "None"})
          => /\ state_file'.exists
             /\ state_file'.state = state']_vars

(***************************************************************************)
(* C38: while the state is Connected the manager's tunnel address is        *)
(* absent or stands in the log of the current run (the text of playit.log   *)
(* since the last start() truncated it); it is not an address taken from    *)
(* the state file of an earlier run or left by an earlier start().          *)
(***************************************************************************)
C38_AddressOfThisRun ==
    state = "connected"
        => \/ tunnel_address = <<>>
           \/ Contains(log, tunnel_address)

(***************************************************************************)
(* C39: the state is always one of the seven values of PlayitState, and it  *)
(* is never Connecting: no operation assigns that value.                    *)
(***************************************************************************)
C39_NeverConnecting ==
    /\ state \in PlayitState
    /\ state # "connecting"

\* a reconnect() has succeeded with a health loop running: the state has
\* been Reconnecting, Starting, WaitingClaim and is Connected
C39_Witness ==
    /\ state = "connected"
    /\ last_reconnect_time
    /\ health_running
    /\ \E t \in Threads : pc[t] = "h_sleep"

====
